---------------------------- MODULE Spec2Model ----------------------------
(***************************************************************************)
(* vmregex: a pattern is parsed into an AST (src/src/parser.rs), lowered   *)
(* to a flat instruction sequence (src/src/codegen.rs) and run by a        *)
(* recursive backtracking machine (src/src/machine.rs).                    *)
(*                                                                         *)
(* Characters are one-character strings, a pattern or a text is a sequence *)
(* of characters.  Pc and Sp are 0-based as in the source; sequences are   *)
(* 1-based, so instruction pc is instructions[pc + 1].                     *)
(***************************************************************************)
EXTENDS Integers, Sequences, FiniteSets, TLC

(***************************************************************************)
(* Bounds of the model.                                                    *)
(***************************************************************************)
\* Largest value of the bounded machine word standing for usize.
UsizeMax == 65535
\* Largest number of AST nodes of an AST handed to generate_code.
MaxAstSize == 4
\* Longest text handed to is_match on a program generated from an AST.
MaxTextLen == 2
\* Longest text handed to is_match on a program compiled from a pattern.
MaxPatTextLen == 4
\* Longest metacharacter-free pattern.
MaxLiteralLen == 3
\* Longest hand-built instruction sequence.
MaxProgLen == 2
\* Longest text handed to is_match on a hand-built program.
MaxProgTextLen == 1
\* Number of is_match calls made on one Machine, and their longest text.
MaxCalls == 3
MaxRepeatTextLen == 1
\* Number of nested is_matching activations the thread's stack can hold.
MaxDepth == 16
\* Length of the generated patterns given to parse.
MaxPatternLen == 4
\* Length of the patterns made of parentheses only.
MaxParenLen == 6
\* Length of the texts of the concurrent calls of is_match.
MaxThreadTextLen == 1

(***************************************************************************)
(* parser.rs / codegen.rs: enum Ast.  One record shape for every variant:  *)
(* c is the character of Char, kids the children (Or: <<lhs, rhs>>,        *)
(* Question/Star/Plus: <<e>>, Concat: the vector).                         *)
(***************************************************************************)
AstChar(c) == [type |-> "Char", c |-> c, kids |-> <<>>]
AstDot == [type |-> "Dot", c |-> "", kids |-> <<>>]
AstConcat(v) == [type |-> "Concat", c |-> "", kids |-> v]
AstOr(lhs, rhs) == [type |-> "Or", c |-> "", kids |-> <<lhs, rhs>>]
AstQuestion(e) == [type |-> "Question", c |-> "", kids |-> <<e>>]
AstStar(e) == [type |-> "Star", c |-> "", kids |-> <<e>>]
AstPlus(e) == [type |-> "Plus", c |-> "", kids |-> <<e>>]
\* Stands for "no AST" (a parse error, or a machine built by hand).
NoAst == [type |-> "None", c |-> "", kids |-> <<>>]

(***************************************************************************)
(* codegen.rs: enum Instruction.  x and y are the Pc operands (Jmp: x,     *)
(* Split: x and y).                                                        *)
(***************************************************************************)
Char(c) == [op |-> "Char", c |-> c, x |-> 0, y |-> 0]
Match == [op |-> "Match", c |-> "", x |-> 0, y |-> 0]
Jmp(t) == [op |-> "Jmp", c |-> "", x |-> t, y |-> 0]
Split(a, b) == [op |-> "Split", c |-> "", x |-> a, y |-> b]
AnyByte == [op |-> "AnyByte", c |-> "", x |-> 0, y |-> 0]

(***************************************************************************)
(* Pc::inc (codegen.rs) and Sp::inc (machine.rs): checked_add(1).          *)
(***************************************************************************)
\* What a call of inc returns: Ok(the counter) or the error supplied; of
\* tells Pc::inc from Sp::inc.
IncRet(of, err, v) == [of |-> of, err |-> err, v |-> v]
NoIncRet == IncRet("none", "none", 0)

\* A mutant that wraps around: wrapping_add(1).
Pc_inc_wrapping(pc) == [ok |-> TRUE, v |-> (pc + 1) % (UsizeMax + 1)]

Pc_inc(pc) ==
    IF pc < UsizeMax THEN [ok |-> TRUE, v |-> pc + 1]
                     ELSE [ok |-> FALSE, v |-> pc]

Sp_inc(sp) ==
    IF sp < UsizeMax THEN [ok |-> TRUE, v |-> sp + 1]
                     ELSE [ok |-> FALSE, v |-> sp]

(***************************************************************************)
(* codegen.rs: struct CodeGenerator { pc, instructions }.  err records an  *)
(* early exit: "PcOverflow" (the ? operator), "AssertFailed" (assert_eq!), *)
(* "Unreachable" (unreachable!).  Once err is set every later statement is *)
(* skipped.                                                                *)
(***************************************************************************)
CodeGenerator == [pc |-> 0, instructions |-> <<>>, err |-> "none"]

\* self.pc.inc(|| GenerateCodeError::PcOverflow)?
IncPc(g) ==
    IF g.err # "none" THEN g
    ELSE IF Pc_inc(g.pc).ok THEN [g EXCEPT !.pc = Pc_inc(g.pc).v]
    ELSE [g EXCEPT !.err = "PcOverflow"]

\* self.instructions.push(i)
Emit(g, i) ==
    IF g.err # "none" THEN g
    ELSE [g EXCEPT !.instructions = Append(@, i)]

\* assert_eq!(self.instructions.len(), self.pc.0)
AssertLen(g) ==
    IF g.err # "none" THEN g
    ELSE IF Len(g.instructions) = g.pc THEN g
    ELSE [g EXCEPT !.err = "AssertFailed"]

\* if let Some(Instruction::Split(_, l2)) = self.instructions.get_mut(at) { *l2 = self.pc }
PatchSplit(g, at) ==
    IF g.err # "none" THEN g
    ELSE IF at < Len(g.instructions) /\ g.instructions[at + 1].op = "Split"
         THEN [g EXCEPT !.instructions[at + 1].y = g.pc]
         ELSE [g EXCEPT !.err = "Unreachable"]

\* A mutant that leaves the target of the Jmp as emitted.
PatchJmp_skip(g, at) == g

\* if let Some(Instruction::Jmp(l3)) = self.instructions.get_mut(at) { *l3 = self.pc }
PatchJmp(g, at) ==
    IF g.err # "none" THEN g
    ELSE IF at < Len(g.instructions) /\ g.instructions[at + 1].op = "Jmp"
         THEN [g EXCEPT !.instructions[at + 1].x = g.pc]
         ELSE [g EXCEPT !.err = "Unreachable"]

RECURSIVE expr(_, _)
RECURSIVE concat(_, _)

\* A mutant of char that pushes the instruction and leaves pc as it is.
char_no_inc(g, c) == Emit(g, Char(c))

\* CodeGenerator::char: push, then inc.
char(g, c) == IncPc(Emit(g, Char(c)))

\* CodeGenerator::concat: for ast in concat { self.expr(ast)?; }
concat(g, v) ==
    IF v = <<>> \/ g.err # "none" THEN g
    ELSE concat(expr(g, Head(v)), Tail(v))

\* A mutant of or whose `jmp L3` keeps its placeholder target Pc(0).
or_unpatched_jmp(g, lhs, rhs) ==
    LET g1 == AssertLen(g)
        split_pc == g1.pc
        g2 == IncPc(g1)
        l1 == g2.pc
        g3 == AssertLen(Emit(g2, Split(l1, 0)))
        g4 == expr(g3, lhs)
        g5 == AssertLen(Emit(IncPc(g4), Jmp(0)))
        g6 == PatchSplit(g5, split_pc)
    IN  AssertLen(expr(g6, rhs))

\* CodeGenerator::or
or(g, lhs, rhs) ==
    LET g1 == AssertLen(g)
        split_pc == g1.pc
        g2 == IncPc(g1)
        l1 == g2.pc
        g3 == AssertLen(Emit(g2, Split(l1, 0)))
        g4 == expr(g3, lhs)
        jmp_pc == g4.pc
        g5 == AssertLen(Emit(IncPc(g4), Jmp(0)))
        g6 == PatchSplit(g5, split_pc)
        g7 == AssertLen(expr(g6, rhs))
    IN  PatchJmp(g7, jmp_pc)

\* CodeGenerator::question
question(g, e) ==
    LET g1 == AssertLen(g)
        split_pc == g1.pc
        g2 == IncPc(g1)
        l1 == g2.pc
        g3 == Emit(g2, Split(l1, 0))
        g4 == AssertLen(expr(g3, e))
    IN  PatchSplit(g4, split_pc)

\* CodeGenerator::star
star(g, e) ==
    LET g1 == AssertLen(g)
        l1 == g1.pc
        g2 == IncPc(g1)
        l2 == g2.pc
        g3 == Emit(g2, Split(l2, 0))
        g4 == AssertLen(expr(g3, e))
        g5 == AssertLen(Emit(IncPc(g4), Jmp(l1)))
    IN  PatchSplit(g5, l1)

\* Mutants of plus: the Split emitted before e, as in star (e may then be
\* skipped), and an exit target one past L2.
plus_as_star(g, e) == star(g, e)

plus_far_exit(g, e) ==
    LET g1 == AssertLen(g)
        l1 == g1.pc
        g2 == AssertLen(expr(g1, e))
        g3 == IncPc(g2)
        l2 == g3.pc
    IN  AssertLen(Emit(g3, Split(l1, l2 + 1)))

\* CodeGenerator::plus
plus(g, e) ==
    LET g1 == AssertLen(g)
        l1 == g1.pc
        g2 == AssertLen(expr(g1, e))
        g3 == IncPc(g2)
        l2 == g3.pc
    IN  AssertLen(Emit(g3, Split(l1, l2)))

\* A mutant of dot that emits Match.
dot_emits_match(g) == AssertLen(IncPc(Emit(AssertLen(g), Match)))

\* CodeGenerator::dot: push, then inc.
dot(g) == AssertLen(IncPc(Emit(AssertLen(g), AnyByte)))

\* CodeGenerator::expr
expr(g, ast) ==
    IF g.err # "none" THEN g
    ELSE CASE ast.type = "Char" -> char(g, ast.c)
           [] ast.type = "Concat" -> concat(g, ast.kids)
           [] ast.type = "Or" -> or(g, ast.kids[1], ast.kids[2])
           [] ast.type = "Question" -> question(g, ast.kids[1])
           [] ast.type = "Star" -> star(g, ast.kids[1])
           [] ast.type = "Plus" -> plus(g, ast.kids[1])
           [] ast.type = "Dot" -> dot(g)

\* CodeGenerator::generate_code / generate_code: the returned record holds
\* Ok(instructions) when err = "none".
generate_code(ast) ==
    LET g1 == expr(AssertLen(CodeGenerator), ast)
        g2 == AssertLen(Emit(IncPc(g1), Match))
    IN  [err |-> g2.err,
         instructions |-> IF g2.err = "none" THEN g2.instructions ELSE <<>>]

(***************************************************************************)
(* parser.rs: struct Context { concat, concat_or, stack } together with    *)
(* the locals of parse: escaping, and err for an early `return Err(..)`.   *)
(* A stack entry is the saved pair (concat, concat_or).                    *)
(***************************************************************************)
NoError == [kind |-> "none", c |-> ""]
ParseError(kind) == [kind |-> kind, c |-> ""]
InvalidEscape(c) == [kind |-> "InvalidEscape", c |-> c]

Context ==
    [concat |-> <<>>, concat_or |-> <<>>, stack |-> <<>>,
     escaping |-> FALSE, err |-> NoError]

\* A mutant that does not let the closing parenthesis be escaped.
Escapable_noclose == {"*", "+", "\\", "?", "(", "|"}

\* matches!(c, '*' | '+' | '\\' | '?' | '(' | ')' | '|')
Escapable == {"*", "+", "\\", "?", "(", ")", "|"}

Front(s) == SubSeq(s, 1, Len(s) - 1)
Last(s) == s[Len(s)]

\* A mutant that wraps a single node too.
append_concat_wrap(ctx) ==
    [ctx EXCEPT !.concat_or = Append(@, AstConcat(ctx.concat)),
                !.concat = <<>>]

\* fn append_concat(ctx)
append_concat(ctx) ==
    IF Len(ctx.concat) = 1
    THEN [ctx EXCEPT !.concat_or = Append(@, ctx.concat[1]), !.concat = <<>>]
    ELSE [ctx EXCEPT !.concat_or = Append(@, AstConcat(ctx.concat)),
                     !.concat = <<>>]

\* A mutant that builds the chain leaning to the left.
RECURSIVE or_fold_left(_, _)
or_fold_left(rest, ast) ==
    IF rest = <<>> THEN ast
    ELSE AstOr(or_fold_left(Front(rest), Last(rest)), ast)

\* or_ast, the loop `for operand in reversed { ast = Or(operand, ast) }`:
\* rest holds the operands still to wrap, in source order.
RECURSIVE or_fold(_, _)
or_fold(rest, ast) ==
    IF rest = <<>> THEN ast
    ELSE or_fold(Front(rest), AstOr(Last(rest), ast))

\* fn or_ast(concat_or) -> Option<Ast>
or_ast(concat_or) ==
    IF concat_or = <<>> THEN [some |-> FALSE, ast |-> NoAst]
    ELSE [some |-> TRUE, ast |-> or_fold(Front(concat_or), Last(concat_or))]

\* A mutant that ignores a quantifier without operand.
quantifier_lenient(ctx, type) ==
    IF ctx.concat # <<>>
    THEN [ctx EXCEPT !.concat = Append(Front(@), [type |-> type, c |-> "", kids |-> <<Last(@)>>])]
    ELSE ctx

\* A mutant that wraps the whole concat buffer.
quantifier_whole_buffer(ctx, type) ==
    IF ctx.concat # <<>>
    THEN [ctx EXCEPT !.concat =
            <<[type |-> type, c |-> "",
               kids |-> <<IF Len(@) = 1 THEN @[1] ELSE AstConcat(@)>>]>>]
    ELSE [ctx EXCEPT !.err = ParseError("MissingOperand")]

\* macro quantifier!(operator)
quantifier(ctx, type) ==
    IF ctx.concat # <<>>
    THEN [ctx EXCEPT !.concat =
              Append(Front(@), [type |-> type, c |-> "", kids |-> <<Last(@)>>])]
    ELSE [ctx EXCEPT !.err = ParseError("MissingOperand")]

\* A mutant without the `continue` of the empty group.
close_paren_no_skip(ctx) ==
    IF ctx.stack = <<>> THEN [ctx EXCEPT !.err = ParseError("UnexpectedParenthesis")]
    ELSE LET prev == Last(ctx.stack)
             popped == [ctx EXCEPT !.stack = Front(@)]
             inner == or_ast(append_concat(popped).concat_or)
         IN  [popped EXCEPT !.concat = IF inner.some THEN Append(prev.concat, inner.ast)
                                        ELSE prev.concat,
                            !.concat_or = prev.concat_or]

\* parse, the ')' arm of the match.
close_paren(ctx) ==
    IF ctx.stack = <<>> THEN [ctx EXCEPT !.err = ParseError("UnexpectedParenthesis")]
    ELSE LET prev == Last(ctx.stack)
             popped == [ctx EXCEPT !.stack = Front(@)]
         IN  IF popped.concat = <<>>
             THEN popped                  \* `continue`: prev is dropped
             ELSE LET inner == or_ast(append_concat(popped).concat_or)
                  IN  [popped EXCEPT
                         !.concat = IF inner.some THEN Append(prev.concat, inner.ast)
                                                  ELSE prev.concat,
                         !.concat_or = prev.concat_or]

\* parse, one iteration of `for c in pattern.chars()`.
parse_char(ctx, c) ==
    IF ctx.err # NoError THEN ctx
    ELSE IF ctx.escaping
    THEN IF c \in Escapable
         THEN [ctx EXCEPT !.concat = Append(@, AstChar(c)), !.escaping = FALSE]
         ELSE [ctx EXCEPT !.err = InvalidEscape(c)]
    ELSE CASE c = "|" ->
                IF ctx.concat = <<>>
                THEN [ctx EXCEPT !.err = ParseError("MissingOperand")]
                ELSE append_concat(ctx)
           [] c = "?" -> quantifier(ctx, "Question")
           [] c = "*" -> quantifier(ctx, "Star")
           [] c = "+" -> quantifier(ctx, "Plus")
           [] c = "(" ->
                [ctx EXCEPT !.stack = Append(@, [concat |-> ctx.concat,
                                                 concat_or |-> ctx.concat_or]),
                            !.concat = <<>>, !.concat_or = <<>>]
           [] c = ")" -> close_paren(ctx)
           [] c = "\\" -> [ctx EXCEPT !.escaping = TRUE]
           [] OTHER -> [ctx EXCEPT !.concat = Append(@, AstChar(c))]

\* parse, the whole loop over the pattern.
RECURSIVE parse_loop(_, _)
parse_loop(ctx, pattern) ==
    IF pattern = <<>> THEN ctx
    ELSE parse_loop(parse_char(ctx, Head(pattern)), Tail(pattern))

\* A mutant that looks for the missing operand before the open group.
parse_end_operand_first(ctx) ==
    IF ctx.err # NoError THEN [err |-> ctx.err, ast |-> NoAst]
    ELSE IF ctx.concat = <<>> /\ ctx.concat_or # <<>>
         THEN [err |-> ParseError("MissingOperand"), ast |-> NoAst]
    ELSE IF ctx.stack # <<>>
         THEN [err |-> ParseError("UnclosedParenthesis"), ast |-> NoAst]
    ELSE LET last == IF ctx.concat = <<>> THEN ctx ELSE append_concat(ctx)
             folded == or_ast(last.concat_or)
         IN  IF folded.some THEN [err |-> NoError, ast |-> folded.ast]
             ELSE [err |-> ParseError("Empty"), ast |-> NoAst]

\* parse, the statements after the loop.
parse_end(ctx) ==
    IF ctx.err # NoError THEN [err |-> ctx.err, ast |-> NoAst]
    ELSE IF ctx.stack # <<>>
    THEN [err |-> ParseError("UnclosedParenthesis"), ast |-> NoAst]
    ELSE IF ctx.concat = <<>> /\ ctx.concat_or # <<>>
    THEN [err |-> ParseError("MissingOperand"), ast |-> NoAst]
    ELSE LET last == IF ctx.concat = <<>> THEN ctx ELSE append_concat(ctx)
             folded == or_ast(last.concat_or)
         IN  IF folded.some THEN [err |-> NoError, ast |-> folded.ast]
                            ELSE [err |-> ParseError("Empty"), ast |-> NoAst]

\* pub fn parse(pattern) -> Result<Ast, ParseError>: Ok(ast) when err = NoError.
parse(pattern) == parse_end(parse_loop(Context, pattern))

(***************************************************************************)
(* State.                                                                  *)
(*   pattern      the pattern text the Machine was compiled from (<<>> if  *)
(*                it was not compiled from a pattern)                      *)
(*   ast          the AST handed to generate_code (NoAst for a hand-built  *)
(*                program)                                                 *)
(*   instructions Machine.instructions                                     *)
(*   calls        number of is_match calls made so far                     *)
(*   text         the text of the current (or last) is_match call          *)
(*   stack        the activations of is_matching, outermost first; a frame *)
(*                holds the locals pc and sp and where it stands: "run"    *)
(*                (in the loop), "l1" / "l2" (inside the first / second    *)
(*                recursive call of the Split arm)                         *)
(*   ret          the value the innermost activation is returning          *)
(*   result       "idle", "running", or what is_match returned             *)
(*   faulted      history: a fetch has failed during the current call      *)
(*   verdicts     history: the (text, result) pairs of the finished calls  *)
(*   ctx          parse: the Context and the local `escaping`              *)
(*   pos          parse: the number of characters of pattern read so far   *)
(*   parsed       parse: <<>>, or <<r>> once parse has returned r          *)
(*   gen          generate_code: the CodeGenerator                         *)
(*   work         generate_code: what is left to do, next step first       *)
(*   threads      concurrent is_match calls on one Machine: the text and   *)
(*                the result of each call                                  *)
(*   cursors      the activations (and the value being returned) of each   *)
(*                concurrent call                                          *)
(*   counter      a Pc or Sp on which inc is called                        *)
(*   inc_ret      what the last call of inc on counter returned            *)
(***************************************************************************)
VARIABLES pattern, ast, instructions, calls, text, stack, ret, result,
          faulted, verdicts, ctx, pos, parsed, gen, work, threads, cursors,
          counter, inc_ret

vars == <<pattern, ast, instructions, calls, text, stack, ret, result,
          faulted, verdicts, ctx, pos, parsed, gen, work, threads, cursors,
          counter, inc_ret>>

\* The state of one sequential use of a Machine, of parse, of generate_code,
\* and of the concurrent calls.
mvars == <<instructions, calls, text, stack, ret, result, faulted, verdicts>>
pvars == <<ctx, pos, parsed>>
gvars == <<gen, work>>
cvars == <<threads, cursors>>
ivars == <<counter, inc_ret>>

OkTrue == "Ok(true)"
OkFalse == "Ok(false)"
ErrPcOverflow == "Err(PcOverflow)"
ErrSpOverflow == "Err(SpOverflow)"
ErrInstructionNotFound == "Err(InstructionNotFound)"
\* The recursion has exhausted the thread's stack: the process is aborted.
StackOverflowAbort == "StackOverflow"

Frame(pc, sp) == [pc |-> pc, sp |-> sp, st |-> "run"]

\* is_match: self.is_matching(text, Pc(0), Sp(0)); a mutant keeps the input
\* position reached at the end of the previous text.
EntryFrame_stale == Frame(0, Len(text))
EntryFrame == Frame(0, 0)

Top == stack[Len(stack)]
InLoop == result = "running" /\ ret = "none" /\ stack # <<>> /\ Top.st = "run"
\* self.instructions.get(pc.0)
Found == Top.pc < Len(instructions)
Instr == instructions[Top.pc + 1]
SetTop(f) == [stack EXCEPT ![Len(stack)] = f]

(***************************************************************************)
(* The arms of `match *instruction`, as functions of the frame: they give  *)
(* the frame after the arm and the value returned ("none": the loop goes   *)
(* on).                                                                    *)
(***************************************************************************)
Advance(f) ==
    IF ~Pc_inc(f.pc).ok THEN [f |-> f, ret |-> ErrPcOverflow]
    ELSE IF ~Sp_inc(f.sp).ok
         THEN [f |-> [f EXCEPT !.pc = Pc_inc(f.pc).v], ret |-> ErrSpOverflow]
         ELSE [f |-> [f EXCEPT !.pc = Pc_inc(f.pc).v, !.sp = Sp_inc(f.sp).v],
               ret |-> "none"]

\* A mutant of the Char arm that does not compare the characters.
arm_char_nocompare(f, c, t) ==
    IF f.sp >= Len(t) THEN [f |-> f, ret |-> OkFalse] ELSE Advance(f)

\* Instruction::Char(c)
arm_char(f, c, t) ==
    IF f.sp >= Len(t) THEN [f |-> f, ret |-> OkFalse]
    ELSE IF c = t[f.sp + 1] THEN Advance(f)
    ELSE [f |-> f, ret |-> OkFalse]

\* A mutant in which AnyByte matches the end of the text.
arm_any_byte_zero_width(f, t) ==
    IF f.sp < Len(t) THEN Advance(f)
    ELSE [f |-> [f EXCEPT !.pc = f.pc + 1], ret |-> "none"]

\* Instruction::AnyByte
arm_any_byte(f, t) ==
    IF f.sp < Len(t) THEN Advance(f) ELSE [f |-> f, ret |-> OkFalse]

\* Instruction::Jmp(new_pc)
arm_jmp(f, new_pc) == [f |-> [f EXCEPT !.pc = new_pc], ret |-> "none"]

\* Mutants of the Split arm: `|` instead of `||` (the second branch is
\* explored whatever the first returned), and an error of the first branch
\* taken for a failed branch.
split_after_first_eager(r) == "second"
split_after_first_swallow(r) == IF r = OkTrue THEN "return" ELSE "second"

\* Instruction::Split(l1, l2): self.is_matching(text, l1, sp)? || ..., what
\* the arm does once the first call has returned r: the `?` returns an
\* error, `||` returns on true and evaluates the second call on false.
split_after_first(r) == IF r = OkFalse THEN "second" ELSE "return"

(***************************************************************************)
(* Actions.                                                                *)
(***************************************************************************)
\* Machine::is_match(text)
is_match(t) ==
    /\ result \notin {"running", StackOverflowAbort}
    /\ text' = t
    /\ stack' = <<EntryFrame>>
    /\ ret' = "none"
    /\ result' = "running"
    /\ calls' = calls + 1
    /\ faulted' = FALSE
    /\ UNCHANGED <<pattern, ast, instructions, verdicts>>
    /\ UNCHANGED <<pvars, gvars, cvars, ivars>>

\* is_matching: the fetch finds no instruction.
FetchNotFound ==
    /\ InLoop /\ ~Found
    /\ ret' = ErrInstructionNotFound
    /\ faulted' = TRUE
    /\ UNCHANGED <<pattern, ast, instructions, calls, text, stack, result, verdicts>>
    /\ UNCHANGED <<pvars, gvars, cvars, ivars>>

StepWith(out) ==
    /\ stack' = SetTop(out.f)
    /\ ret' = out.ret
    /\ UNCHANGED <<pattern, ast, instructions, calls, text, result, faulted, verdicts>>
    /\ UNCHANGED <<pvars, gvars, cvars, ivars>>

ExecChar == InLoop /\ Found /\ Instr.op = "Char" /\ StepWith(arm_char(Top, Instr.c, text))

ExecAnyByte == InLoop /\ Found /\ Instr.op = "AnyByte" /\ StepWith(arm_any_byte(Top, text))

ExecJmp == InLoop /\ Found /\ Instr.op = "Jmp" /\ StepWith(arm_jmp(Top, Instr.x))

\* Instruction::Match => return Ok(true)
ExecMatch ==
    /\ InLoop /\ Found /\ Instr.op = "Match"
    /\ ret' = OkTrue
    /\ UNCHANGED <<pattern, ast, instructions, calls, text, stack, result, faulted, verdicts>>
    /\ UNCHANGED <<pvars, gvars, cvars, ivars>>

\* Instruction::Split(l1, l2): the first recursive call.
ExecSplit ==
    /\ InLoop /\ Found /\ Instr.op = "Split"
    /\ Len(stack) < MaxDepth
    /\ stack' = Append(SetTop([Top EXCEPT !.st = "l1"]), Frame(Instr.x, Top.sp))
    /\ UNCHANGED <<pattern, ast, instructions, calls, text, ret, result, faulted, verdicts>>
    /\ UNCHANGED <<pvars, gvars, cvars, ivars>>

\* The recursive call of a Split finds no room on the thread's stack.
StackOverflow ==
    /\ InLoop /\ Found /\ Instr.op = "Split"
    /\ Len(stack) >= MaxDepth
    /\ stack' = <<>>
    /\ ret' = "none"
    /\ result' = StackOverflowAbort
    /\ verdicts' = verdicts \cup {<<text, StackOverflowAbort>>}
    /\ UNCHANGED <<pattern, ast, instructions, calls, text, faulted>>
    /\ UNCHANGED <<pvars, gvars, cvars, ivars>>

\* A mutant in which the second branch starts at the input position the
\* first branch has reached.
Return_leaky ==
    /\ result = "running" /\ ret # "none" /\ stack # <<>>
    /\ IF Len(stack) = 1
       THEN /\ stack' = <<>>
            /\ result' = ret
            /\ ret' = "none"
            /\ verdicts' = verdicts \cup {<<text, ret>>}
       ELSE LET rest == Front(stack)
                caller == Last(rest)
                split == instructions[caller.pc + 1]
            IN  /\ IF caller.st = "l1" /\ split_after_first(ret) = "second"
                   THEN /\ stack' = Append([rest EXCEPT ![Len(rest)].st = "l2"],
                                           Frame(split.y, Top.sp))
                        /\ ret' = "none"
                   ELSE /\ stack' = rest
                        /\ ret' = ret
                /\ UNCHANGED <<result, verdicts>>
    /\ UNCHANGED <<pattern, ast, instructions, calls, text, faulted>>
    /\ UNCHANGED <<pvars, gvars, cvars, ivars>>

\* An activation returns ret: to is_match (the call is over), or into the
\* Split arm of its caller.
Return ==
    /\ result = "running" /\ ret # "none" /\ stack # <<>>
    /\ IF Len(stack) = 1
       THEN /\ stack' = <<>>
            /\ result' = ret
            /\ ret' = "none"
            /\ verdicts' = verdicts \cup {<<text, ret>>}
       ELSE LET rest == Front(stack)
                caller == Last(rest)
                split == instructions[caller.pc + 1]
            IN  /\ IF caller.st = "l1" /\ split_after_first(ret) = "second"
                   THEN /\ stack' = Append([rest EXCEPT ![Len(rest)].st = "l2"],
                                           Frame(split.y, caller.sp))
                        /\ ret' = "none"
                   ELSE /\ stack' = rest
                        /\ ret' = ret
                /\ UNCHANGED <<result, verdicts>>
    /\ UNCHANGED <<pattern, ast, instructions, calls, text, faulted>>
    /\ UNCHANGED <<pvars, gvars, cvars, ivars>>

(***************************************************************************)
(* Inputs.                                                                 *)
(***************************************************************************)
\* The sequences over S of length at most n.
BoundedSeq(S, n) == UNION {[1..k -> S] : k \in 0..n}

\* The ASTs with exactly n nodes over the leaves Char('a'), Char('b'), Dot;
\* a Concat holds any number of children, as generate_code accepts.
RECURSIVE AstsOfSize(_)
RECURSIVE AstSeqs(_)
AstsOfSize(n) ==
    IF n < 1 THEN {}
    ELSE (IF n = 1 THEN {AstChar("a"), AstChar("b"), AstDot} ELSE {})
         \cup {f : f \in UNION {{AstQuestion(e), AstStar(e), AstPlus(e)} :
                                e \in AstsOfSize(n - 1)}}
         \cup UNION {{AstOr(l, r) : l \in AstsOfSize(k),
                                    r \in AstsOfSize(n - 1 - k)} : k \in 1..(n - 2)}
         \cup {AstConcat(v) : v \in AstSeqs(n - 1)}

\* The sequences of ASTs with m nodes in all.
AstSeqs(m) ==
    IF m = 0 THEN {<<>>}
    ELSE UNION {{<<h>> \o t : h \in AstsOfSize(k), t \in AstSeqs(m - k)} :
                k \in 1..m}

Asts == UNION {AstsOfSize(n) : n \in 1..MaxAstSize}

\* Texts for the generated programs.
AstTexts == BoundedSeq({"a", "b"}, MaxTextLen)

\* Patterns of the quantifier tests (machine.rs test::question/star/plus).
PatStar == <<"a", "*", "b">>
PatPlus == <<"a", "+", "b">>
PatQuestion == <<"a", "?", "b">>
\* Patterns of the wildcard tests (machine.rs test::dot).
PatDot == <<".">>
PatADotB == <<"a", ".", "b">>

\* prefix alt1|alt2|...: the alternatives joined by '|'.
RECURSIVE JoinAlts(_)
JoinAlts(alts) ==
    IF Len(alts) = 1 THEN alts[1]
    ELSE alts[1] \o <<"|">> \o JoinAlts(Tail(alts))

\* A literal prefix followed by an alternation of literal strings, at top
\* level (no prefix) or inside one group; others: characters of the texts
\* that the pattern does not hold.
AltCases ==
    { [prefix |-> <<>>, alts |-> << <<"a">>, <<"b">>, <<"c">> >>,
       group |-> FALSE, others |-> {"d"}],
      [prefix |-> <<"a", "b">>, alts |-> << <<"c", "d">>, <<"e", "f">> >>,
       group |-> TRUE, others |-> {"g", "h"}],
      [prefix |-> <<>>, alts |-> << <<"a", "b">>, <<"c", "d">> >>,
       group |-> FALSE, others |-> {"x"}],
      [prefix |-> <<>>, alts |-> << <<"a">>, <<"b">> >>,
       group |-> TRUE, others |-> {"x"}],
      [prefix |-> <<"a">>, alts |-> << <<"b">>, <<"c", "d">>, <<"e">> >>,
       group |-> TRUE, others |-> {"x"}] }

AltPattern(cs) ==
    IF cs.group THEN cs.prefix \o <<"(">> \o JoinAlts(cs.alts) \o <<")">>
    ELSE JoinAlts(cs.alts)

\* Patterns without metacharacter.
Literals == BoundedSeq({"a", "b"}, MaxLiteralLen) \ {<<>>}

\* Patterns in which Star or Plus wraps an expression that matches the
\* empty input.
NestedPatterns ==
    { <<"a", "*", "*">>, <<"(", "a", "*", ")", "*">>, <<"(", "a", "?", ")", "*">>,
      <<"(", "a", "?", ")", "+">>, <<"(", "a", "|", "b", "*", ")", "*">>,
      <<"(", "a", "*", ")", "+", "b">> }

Patterns ==
    {PatStar, PatPlus, PatQuestion, PatDot, PatADotB}
    \cup {AltPattern(cs) : cs \in AltCases}
    \cup Literals \cup NestedPatterns

\* The characters of the texts given to the program compiled from p: the
\* characters p holds as literals and one or two it does not hold.
PatternChars(p) ==
    ({p[i] : i \in 1..Len(p)} \ Escapable)
    \cup (IF \E cs \in AltCases : AltPattern(cs) = p
          THEN (CHOOSE cs \in AltCases : AltPattern(cs) = p).others
          ELSE {"a", "x"})

PatternTexts(p) == BoundedSeq(PatternChars(p), MaxPatTextLen)

\* Hand-built instruction sequences, malformed ones included: the targets
\* 0 and 1, and 9, which no sequence here holds.
ProgInstrs ==
    {Char("a"), AnyByte, Match}
    \cup {Jmp(t) : t \in {0, 1, 9}}
    \cup {Split(t, u) : t, u \in {0, 1, 9}}

Programs == BoundedSeq(ProgInstrs, MaxProgLen) \ {<<>>}

ProgTexts == BoundedSeq({"a", "b"}, MaxProgTextLen)

\* The machines called repeatedly: the programs of the smallest ASTs, and
\* a malformed one.
RepeatPrograms ==
    {generate_code(a).instructions : a \in AstsOfSize(1) \cup AstsOfSize(2)}
    \cup {<<Split(9, 1), Match>>}

RepeatTexts == BoundedSeq({"a", "b"}, MaxRepeatTextLen)

(***************************************************************************)
(* Specifications.                                                         *)
(***************************************************************************)
\* Machine::new(instructions), before the first call.
\* parse, generate_code, the concurrent calls: not in use.
NoParse == ctx = Context /\ pos = 0 /\ parsed = <<>>
NoGenerate == gen = CodeGenerator /\ work = <<>>
NoThreads == threads = <<>> /\ cursors = <<>>
NoInc == counter = 0 /\ inc_ret = NoIncRet

NewMachine(is) ==
    /\ instructions = is
    /\ calls = 0
    /\ text = <<>>
    /\ stack = <<>>
    /\ ret = "none"
    /\ result = "idle"
    /\ faulted = FALSE
    /\ verdicts = {}

Steps ==
    \/ ExecChar
    \/ ExecJmp
    \/ ExecMatch
    \/ ExecSplit
    \/ Return

\* Any instruction sequence, one call.
Init ==
    /\ NoParse /\ NoGenerate /\ NoThreads /\ NoInc
    /\ pattern = <<>>
    /\ ast = NoAst
    /\ \E is \in Programs : NewMachine(is)

Next ==
    \/ calls < 1 /\ result = "idle" /\ \E t \in ProgTexts : is_match(t)
    \/ Steps
    \/ ExecAnyByte
    \/ FetchNotFound
    \/ StackOverflow

Spec == Init /\ [][Next]_vars

\* generate_code on any AST, one call on the program.
InitAst ==
    /\ NoParse /\ NoGenerate /\ NoThreads /\ NoInc
    /\ pattern = <<>>
    /\ ast \in Asts
    /\ generate_code(ast).err = "none"
    /\ NewMachine(generate_code(ast).instructions)

NextAst ==
    \/ calls < 1 /\ result = "idle" /\ \E t \in AstTexts : is_match(t)
    \/ Steps
    \/ ExecAnyByte
    \/ StackOverflow

SpecAst == InitAst /\ [][NextAst]_vars

\* parse, generate_code, one call on the program.
InitPipeline ==
    /\ NoParse /\ NoGenerate /\ NoThreads /\ NoInc
    /\ pattern \in Patterns
    /\ parse(pattern).err = NoError
    /\ ast = parse(pattern).ast
    /\ generate_code(ast).err = "none"
    /\ NewMachine(generate_code(ast).instructions)

NextPipeline ==
    \/ calls < 1 /\ result = "idle" /\ \E t \in PatternTexts(pattern) : is_match(t)
    \/ Steps
    \/ StackOverflow

SpecPipeline == InitPipeline /\ [][NextPipeline]_vars

\* Several calls on one Machine.
InitRepeat ==
    /\ NoParse /\ NoGenerate /\ NoThreads /\ NoInc
    /\ pattern = <<>>
    /\ ast = NoAst
    /\ \E is \in RepeatPrograms : NewMachine(is)

NextRepeat ==
    \/ calls < MaxCalls /\ result # "running" /\ \E t \in RepeatTexts : is_match(t)
    \/ Steps
    \/ ExecAnyByte
    \/ FetchNotFound
    \/ StackOverflow

SpecRepeat == InitRepeat /\ [][NextRepeat]_vars

(***************************************************************************)
(* Concurrent calls of is_match on one Machine (`&self`).  The Machine     *)
(* holds the instructions only; text, pc and sp are arguments, passed by   *)
(* value, of each call.                                                    *)
(***************************************************************************)
\* Two threads share the Machine.
Callers == {1, 2}

\* A mutant in which the calls keep pc and sp in one place of the Machine.
CursorOf_shared(i) == 1

\* is_matching(&self, text, mut pc: Pc, mut sp: Sp): the activations of
\* call i are its own.
CursorOf(i) == i

Cursor(st, r) == [stack |-> st, ret |-> r]

\* One step of a call on the instructions is and the text t, as a function
\* of its activations c: the activations after the step and the result of
\* the call ("running": the call goes on).
call_step(is, t, c) ==
    LET f == Last(c.stack)
        going(out) == [cur |-> Cursor([c.stack EXCEPT ![Len(c.stack)] = out.f], out.ret),
                       result |-> "running"]
    IN  IF c.ret # "none"
        THEN IF Len(c.stack) = 1
             THEN [cur |-> Cursor(<<>>, "none"), result |-> c.ret]
             ELSE LET rest == Front(c.stack)
                      caller == Last(rest)
                      split == is[caller.pc + 1]
                  IN  IF caller.st = "l1" /\ split_after_first(c.ret) = "second"
                      THEN [cur |-> Cursor(Append([rest EXCEPT ![Len(rest)].st = "l2"],
                                                  Frame(split.y, caller.sp)), "none"),
                            result |-> "running"]
                      ELSE [cur |-> Cursor(rest, c.ret), result |-> "running"]
        ELSE IF f.pc >= Len(is)
             THEN [cur |-> Cursor(c.stack, ErrInstructionNotFound), result |-> "running"]
             ELSE LET i == is[f.pc + 1]
                  IN  CASE i.op = "Char" -> going(arm_char(f, i.c, t))
                        [] i.op = "AnyByte" -> going(arm_any_byte(f, t))
                        [] i.op = "Jmp" -> going(arm_jmp(f, i.x))
                        [] i.op = "Match" -> going([f |-> f, ret |-> OkTrue])
                        [] i.op = "Split" ->
                             IF Len(c.stack) < MaxDepth
                             THEN [cur |-> Cursor(Append([c.stack EXCEPT ![Len(c.stack)].st = "l1"],
                                                         Frame(i.x, f.sp)), "none"),
                                   result |-> "running"]
                             ELSE [cur |-> Cursor(<<>>, "none"), result |-> StackOverflowAbort]

\* The result of a call that runs with no other call beside it.
RECURSIVE run_alone(_, _, _)
run_alone(is, t, c) ==
    LET n == call_step(is, t, c)
    IN  IF n.result # "running" THEN n.result ELSE run_alone(is, t, n.cur)

\* A stack overflow in one thread aborts the process.
Aborted == \E i \in Callers : threads[i].result = StackOverflowAbort

\* Thread i calls is_match(t).
ThreadCall(i, t) ==
    /\ ~Aborted
    /\ threads[i].result = "idle"
    /\ threads' = [threads EXCEPT ![i] = [text |-> t, result |-> "running"]]
    /\ cursors' = [cursors EXCEPT ![CursorOf(i)] = Cursor(<<EntryFrame>>, "none")]
    /\ UNCHANGED <<pattern, ast, mvars, pvars, gvars, ivars>>

\* Thread i executes one step of its call.
ThreadStep(i) ==
    /\ ~Aborted
    /\ threads[i].result = "running"
    /\ cursors[CursorOf(i)].stack # <<>>
    /\ LET n == call_step(instructions, threads[i].text, cursors[CursorOf(i)])
       IN  /\ cursors' = [cursors EXCEPT ![CursorOf(i)] = n.cur]
           /\ threads' = [threads EXCEPT ![i].result = n.result]
    /\ UNCHANGED <<pattern, ast, mvars, pvars, gvars, ivars>>

ThreadTexts == BoundedSeq({"a", "b"}, MaxThreadTextLen)

InitThreads ==
    /\ pattern = <<>>
    /\ ast = NoAst
    /\ NoParse /\ NoGenerate /\ NoInc
    /\ \E is \in RepeatPrograms : NewMachine(is)
    /\ threads = [i \in Callers |-> [text |-> <<>>, result |-> "idle"]]
    /\ cursors = [i \in Callers |-> Cursor(<<>>, "none")]

NextThreads ==
    \/ \E i \in Callers : threads[i].result = "idle" /\ \E t \in ThreadTexts : ThreadCall(i, t)
    \/ \E i \in Callers : ThreadStep(i)

SpecThreads == InitThreads /\ [][NextThreads]_vars

(***************************************************************************)
(* parse, one character of the pattern at a time.                          *)
(***************************************************************************)
\* The patterns of the tests of parser.rs.
TestPatterns ==
    { <<"a", "b", "c">>,
      <<"a", "|", "b", "|", "c">>,
      <<"x", "y", "z", "|", "b", "|", "c">>,
      <<"|", "b">>,
      <<"a", "|">>,
      <<"|">>,
      <<>>,
      <<"a", "b", "(", "c", "d", "|", "e", "f", ")">>,
      <<"(", "a", "b">>,
      <<"a", "b", ")">>,
      <<"(">>,
      <<")">>,
      <<"(", ")">>,
      <<"\\", "+">>,
      <<"\\", "*", "b", "\\", "?">>,
      <<"\\", "\\", "\\", "\\", "\\", "\\">>,
      <<"\\", "a">>,
      <<"a", "\\", "b", "c">>,
      <<"a", "?">>,
      <<"a", "?", "b">>,
      <<"a", "(", "b", "c", ")", "?", "d", "e">>,
      <<"?">>,
      <<"?", "a", "b", "c">> }

\* The characters of the generated patterns: two literals, the operators,
\* the parentheses and the backslash.
PatAlphabet == {"a", "b", "|", "?", "*", "+", "(", ")", "\\"}

\* Patterns with a group whose last alternative is missing, at the end of
\* the pattern and before a literal, a group or an alternative.
GroupBarPatterns ==
    { <<"(", "a", "|", ")">>, <<"(", "a", "|", ")", "b">>,
      <<"a", "(", "b", "|", ")">>, <<"(", "a", "|", ")", "(", "b", ")">>,
      <<"(", "a", "|", "b", "|", ")", "c">>, <<"(", "(", "a", "|", ")", ")", "b">>,
      <<"(", "a", "|", ")", "|", "b">> }

\* Patterns made of parentheses only.
ParenPatterns == BoundedSeq({"(", ")"}, MaxParenLen)

ParsePatterns ==
    BoundedSeq(PatAlphabet, MaxPatternLen) \cup TestPatterns \cup ParenPatterns
    \cup {AltPattern(cs) : cs \in AltCases} \cup NestedPatterns
    \cup GroupBarPatterns

\* for c in pattern.chars(): there is a next character, no arm has returned.
Reading == parsed = <<>> /\ ctx.err = NoError /\ pos < Len(pattern)
NextChar == pattern[pos + 1]

\* One iteration of the loop.
Read ==
    /\ ctx' = parse_char(ctx, NextChar)
    /\ pos' = pos + 1
    /\ UNCHANGED <<pattern, ast, parsed, mvars, gvars, cvars, ivars>>

\* if escaping { ... }
ReadEscaped == Reading /\ ctx.escaping /\ Read
\* '|' => ...
ReadBar == Reading /\ ~ctx.escaping /\ NextChar = "|" /\ Read
\* '?' | '*' | '+' => quantifier!(...)
ReadQuantifier == Reading /\ ~ctx.escaping /\ NextChar \in {"?", "*", "+"} /\ Read
\* '(' => ...
ReadOpen == Reading /\ ~ctx.escaping /\ NextChar = "(" /\ Read
\* ')' => ...
ReadClose == Reading /\ ~ctx.escaping /\ NextChar = ")" /\ Read
\* '\\' => escaping = true
ReadBackslash == Reading /\ ~ctx.escaping /\ NextChar = "\\" /\ Read
\* _ => ctx.concat.push(Ast::Char(c))
ReadLiteral ==
    /\ Reading /\ ~ctx.escaping
    /\ NextChar \notin {"|", "?", "*", "+", "(", ")", "\\"}
    /\ Read

\* parse returns: the error of an arm, or what follows the loop.
ParseReturn ==
    /\ parsed = <<>>
    /\ ctx.err # NoError \/ pos = Len(pattern)
    /\ parsed' = <<parse_end(ctx)>>
    /\ UNCHANGED <<pattern, ast, ctx, pos, mvars, gvars, cvars, ivars>>

InitParse ==
    /\ pattern \in ParsePatterns
    /\ ast = NoAst
    /\ NoParse /\ NoGenerate /\ NoThreads /\ NoInc
    /\ NewMachine(<<>>)

NextParse ==
    \/ ReadEscaped
    \/ ReadBar
    \/ ReadQuantifier
    \/ ReadOpen
    \/ ReadClose
    \/ ReadBackslash
    \/ ReadLiteral
    \/ ParseReturn

SpecParse == InitParse /\ [][NextParse]_vars

(***************************************************************************)
(* generate_code, one emission at a time.  work holds what the calls in    *)
(* progress have left to do, next first: an expression to lower ("expr"),  *)
(* the rest of or after lhs ("or_jmp") and after rhs ("or_end"), the rest  *)
(* of question, star and plus after e, and the Match of generate_code.     *)
(* at is the local the rest of the method needs: split_pc, jmp_pc or l1.   *)
(***************************************************************************)
Todo(k, a, at) == [k |-> k, ast |-> a, at |-> at]
ExprTodo(a) == Todo("expr", a, 0)

\* The next thing to do; a `?` or a panic has not ended the generation.
Doing(k) == work # <<>> /\ gen.err = "none" /\ Head(work).k = k
Lowering(type) == Doing("expr") /\ Head(work).ast.type = type

\* Ast::Char(c) => self.char(c)?
GenChar ==
    /\ Lowering("Char")
    /\ gen' = char(gen, Head(work).ast.c)
    /\ work' = Tail(work)
    /\ UNCHANGED <<pattern, ast, mvars, pvars, cvars, ivars>>

\* Ast::Dot => self.dot()?
GenDot ==
    /\ Lowering("Dot")
    /\ gen' = dot(gen)
    /\ work' = Tail(work)
    /\ UNCHANGED <<pattern, ast, mvars, pvars, cvars, ivars>>

\* Ast::Concat(concat) => for ast in concat { self.expr(ast)?; }
GenConcat ==
    /\ Lowering("Concat")
    /\ LET v == Head(work).ast.kids
       IN  work' = [k \in 1..Len(v) |-> ExprTodo(v[k])] \o Tail(work)
    /\ UNCHANGED <<pattern, ast, gen, mvars, pvars, cvars, ivars>>

\* or, up to self.expr(lhs): split L1, L2 with L2 to be set.
GenOr ==
    /\ Lowering("Or")
    /\ LET g1 == AssertLen(gen)
           g2 == IncPc(g1)
       IN  /\ gen' = AssertLen(Emit(g2, Split(g2.pc, 0)))
           /\ work' = <<ExprTodo(Head(work).ast.kids[1]),
                        Todo("or_jmp", Head(work).ast.kids[2], g1.pc)>> \o Tail(work)
    /\ UNCHANGED <<pattern, ast, mvars, pvars, cvars, ivars>>

\* or, between self.expr(lhs) and self.expr(rhs): jmp L3 with L3 to be set,
\* and L2 of the Split set.
GenOrJmp ==
    /\ Doing("or_jmp")
    /\ gen' = PatchSplit(AssertLen(Emit(IncPc(gen), Jmp(0))), Head(work).at)
    /\ work' = <<ExprTodo(Head(work).ast), Todo("or_end", NoAst, gen.pc)>> \o Tail(work)
    /\ UNCHANGED <<pattern, ast, mvars, pvars, cvars, ivars>>

\* or, after self.expr(rhs): L3 of the Jmp set.
GenOrEnd ==
    /\ Doing("or_end")
    /\ gen' = PatchJmp(AssertLen(gen), Head(work).at)
    /\ work' = Tail(work)
    /\ UNCHANGED <<pattern, ast, mvars, pvars, cvars, ivars>>

\* question, up to self.expr(e).
GenQuestion ==
    /\ Lowering("Question")
    /\ LET g1 == AssertLen(gen)
           g2 == IncPc(g1)
       IN  /\ gen' = Emit(g2, Split(g2.pc, 0))
           /\ work' = <<ExprTodo(Head(work).ast.kids[1]),
                        Todo("question_end", NoAst, g1.pc)>> \o Tail(work)
    /\ UNCHANGED <<pattern, ast, mvars, pvars, cvars, ivars>>

\* question, after self.expr(e).
GenQuestionEnd ==
    /\ Doing("question_end")
    /\ gen' = PatchSplit(AssertLen(gen), Head(work).at)
    /\ work' = Tail(work)
    /\ UNCHANGED <<pattern, ast, mvars, pvars, cvars, ivars>>

\* star, up to self.expr(e).
GenStar ==
    /\ Lowering("Star")
    /\ LET g1 == AssertLen(gen)
           g2 == IncPc(g1)
       IN  /\ gen' = Emit(g2, Split(g2.pc, 0))
           /\ work' = <<ExprTodo(Head(work).ast.kids[1]),
                        Todo("star_end", NoAst, g1.pc)>> \o Tail(work)
    /\ UNCHANGED <<pattern, ast, mvars, pvars, cvars, ivars>>

\* star, after self.expr(e): jmp L1, and L3 of the Split set.
GenStarEnd ==
    /\ Doing("star_end")
    /\ gen' = PatchSplit(AssertLen(Emit(IncPc(AssertLen(gen)), Jmp(Head(work).at))),
                         Head(work).at)
    /\ work' = Tail(work)
    /\ UNCHANGED <<pattern, ast, mvars, pvars, cvars, ivars>>

\* plus, up to self.expr(e).
GenPlus ==
    /\ Lowering("Plus")
    /\ gen' = AssertLen(gen)
    /\ work' = <<ExprTodo(Head(work).ast.kids[1]),
                 Todo("plus_end", NoAst, gen.pc)>> \o Tail(work)
    /\ UNCHANGED <<pattern, ast, mvars, pvars, cvars, ivars>>

\* plus, after self.expr(e): split L1, L2.
GenPlusEnd ==
    /\ Doing("plus_end")
    /\ LET g3 == IncPc(AssertLen(gen))
       IN  gen' = AssertLen(Emit(g3, Split(Head(work).at, g3.pc)))
    /\ work' = Tail(work)
    /\ UNCHANGED <<pattern, ast, mvars, pvars, cvars, ivars>>

\* generate_code, after self.expr(ast): the Match.
GenMatch ==
    /\ Doing("match")
    /\ gen' = AssertLen(Emit(IncPc(gen), Match))
    /\ work' = Tail(work)
    /\ UNCHANGED <<pattern, ast, mvars, pvars, cvars, ivars>>

\* CodeGenerator::default().generate_code(ast), at its first statement.
InitGen ==
    /\ pattern = <<>>
    /\ ast \in Asts
    /\ gen = CodeGenerator
    /\ work = <<ExprTodo(ast), Todo("match", NoAst, 0)>>
    /\ NoParse /\ NoThreads /\ NoInc
    /\ NewMachine(<<>>)

NextGen ==
    \/ GenChar
    \/ GenDot
    \/ GenConcat
    \/ GenOr
    \/ GenOrJmp
    \/ GenOrEnd
    \/ GenQuestion
    \/ GenQuestionEnd
    \/ GenStar
    \/ GenStarEnd
    \/ GenPlus
    \/ GenPlusEnd
    \/ GenMatch

SpecGen == InitGen /\ [][NextGen]_vars

(***************************************************************************)
(* Pc::inc and Sp::inc, called on a counter of any value.                  *)
(***************************************************************************)
\* pc.inc(|| PcOverflow)
PcInc ==
    /\ counter' = Pc_inc(counter).v
    /\ inc_ret' = IF Pc_inc(counter).ok THEN IncRet("Pc", "none", Pc_inc(counter).v)
                  ELSE IncRet("Pc", "PcOverflow", 0)
    /\ UNCHANGED <<pattern, ast, mvars, pvars, gvars, cvars>>

\* sp.inc(|| SpOverflow)
SpInc ==
    /\ counter' = Sp_inc(counter).v
    /\ inc_ret' = IF Sp_inc(counter).ok THEN IncRet("Sp", "none", Sp_inc(counter).v)
                  ELSE IncRet("Sp", "SpOverflow", 0)
    /\ UNCHANGED <<pattern, ast, mvars, pvars, gvars, cvars>>

\* Pc(n) or Sp(n), n any value of the word.
InitInc ==
    /\ pattern = <<>>
    /\ ast = NoAst
    /\ NoParse /\ NoGenerate /\ NoThreads
    /\ NewMachine(<<>>)
    /\ counter \in 0..UsizeMax
    /\ inc_ret = NoIncRet

NextInc ==
    \/ PcInc
    \/ SpInc

SpecInc == InitInc /\ [][NextInc]_vars

(***************************************************************************)
(* Properties.                                                             *)
(***************************************************************************)
\* The is_match call is over.
Done == result \notin {"idle", "running"}

Verdict(b) == IF b THEN OkTrue ELSE OkFalse

IsPrefix(p, t) == Len(p) <= Len(t) /\ SubSeq(t, 1, Len(p)) = p

\* The end positions j such that t[i+1..j] belongs to the regular language
\* the AST a denotes (positions are counts of consumed elements).
RECURSIVE Ends(_, _, _)
RECURSIVE EndsOfSeq(_, _, _)
RECURSIVE EndsClosure(_, _, _)
Ends(a, t, i) ==
    CASE a.type = "Char" -> IF i < Len(t) /\ t[i + 1] = a.c THEN {i + 1} ELSE {}
      [] a.type = "Dot" -> IF i < Len(t) THEN {i + 1} ELSE {}
      [] a.type = "Concat" -> EndsOfSeq(a.kids, t, {i})
      [] a.type = "Or" -> Ends(a.kids[1], t, i) \cup Ends(a.kids[2], t, i)
      [] a.type = "Question" -> {i} \cup Ends(a.kids[1], t, i)
      [] a.type = "Star" -> EndsClosure(a.kids[1], t, {i})
      [] a.type = "Plus" -> EndsClosure(a.kids[1], t, Ends(a.kids[1], t, i))

EndsOfSeq(v, t, I) ==
    IF v = <<>> THEN I
    ELSE EndsOfSeq(Tail(v), t, UNION {Ends(Head(v), t, i) : i \in I})

EndsClosure(e, t, I) ==
    LET J == I \cup UNION {Ends(e, t, i) : i \in I}
    IN  IF J = I THEN I ELSE EndsClosure(e, t, J)

\* The ASTs in which every Concat holds at least two children, as in the
\* ASTs parse builds.
RECURSIVE NoShortConcat(_)
NoShortConcat(a) ==
    /\ a.type = "Concat" => Len(a.kids) >= 2
    /\ \A k \in 1..Len(a.kids) : NoShortConcat(a.kids[k])

\* C1: on the program generated from any AST, is_match returns Ok(true) if
\* some prefix of the text belongs to the language of the AST, and
\* Ok(false) otherwise (stated here for the ASTs without a Concat of fewer
\* than two children).
C1_PrefixLanguage ==
    (Done /\ NoShortConcat(ast)) => result = Verdict(Ends(ast, text, 0) # {})

\* C2: in a pattern the unescaped '.' is the wildcard: "." does not match
\* the empty text, "a.b" does not match "ab" and matches every text
\* "a" c "b".
C2_DotIsWildcard ==
    /\ (pattern = PatDot /\ Done /\ text = <<>>) => result = OkFalse
    /\ (pattern = PatADotB /\ Done /\ text = <<"a", "b">>) => result = OkFalse
    /\ (pattern = PatADotB /\ Done /\ Len(text) = 3
          /\ text[1] = "a" /\ text[3] = "b") => result = OkTrue

\* t starts with n copies of 'a' followed by 'b', for some n >= min.
AsThenB(t, min) ==
    \E n \in min..(Len(t) - 1) :
        /\ \A i \in 1..n : t[i] = "a"
        /\ t[n + 1] = "b"

\* C3: "a*b" matches t iff t starts with a^n b for some n >= 0, "a+b" iff it
\* does for some n >= 1, "a?b" iff t starts with "b" or with "ab".
C3_Quantifiers ==
    Done =>
        /\ pattern = PatStar => result = Verdict(AsThenB(text, 0))
        /\ pattern = PatPlus => result = Verdict(AsThenB(text, 1))
        /\ pattern = PatQuestion =>
               result = Verdict(IsPrefix(<<"b">>, text) \/ IsPrefix(<<"a", "b">>, text))

C3_Witness ==
    \/ pattern = PatStar /\ text = <<"a", "a", "b">> /\ result = OkTrue
    \/ pattern = PatPlus /\ text = <<"b">> /\ result = OkFalse

\* C4: a literal prefix followed by an alternation of literal strings
\* accepts a text iff the text starts with the prefix followed by one of
\* the alternatives.
C4_Alternation ==
    \A cs \in AltCases :
        (pattern = AltPattern(cs) /\ Done) =>
            result = Verdict(\E k \in 1..Len(cs.alts) :
                                 IsPrefix(cs.prefix \o cs.alts[k], text))

C4_Witness ==
    /\ pattern = <<"a", "b", "(", "c", "d", "|", "e", "f", ")">>
    /\ text = <<"a", "b", "e", "f">>
    /\ result = OkTrue

\* C5: a non-empty pattern p without metacharacter matches a text iff p is
\* a prefix of the text.
C5_LiteralPrefix ==
    (pattern \in Literals /\ Done) => result = Verdict(IsPrefix(pattern, text))

C5_Witness ==
    /\ pattern = <<"a", "b">>
    /\ text = <<"a", "b", "x">>
    /\ result = OkTrue

\* C6: on the program of every pattern parse accepts is_match terminates
\* with a result, and on a non-empty text the number of nested recursive
\* calls never exceeds the size of the program times the length of the
\* text.
C6_BoundedRecursion ==
    /\ result # StackOverflowAbort
    /\ Len(text) >= 1 => Len(stack) - 1 <= Len(instructions) * Len(text)

\* C7: every Jmp and Split target of a generated program is an index of
\* the program, every fetch finds an instruction and is_match never
\* returns InstructionNotFound.
C7_TargetsInRange ==
    /\ \A k \in 1..Len(instructions) :
          /\ instructions[k].op = "Jmp" => instructions[k].x < Len(instructions)
          /\ instructions[k].op = "Split" =>
                 /\ instructions[k].x < Len(instructions)
                 /\ instructions[k].y < Len(instructions)
    /\ InLoop => Found
    /\ result # ErrInstructionNotFound

C7_Witness ==
    /\ ast = AstStar(AstChar("a"))
    /\ text = <<"a", "b">>
    /\ result = OkTrue

C9_ErrorAborts ==
    /\ faulted => IF result = "running" THEN ret = ErrInstructionNotFound
                  ELSE result = ErrInstructionNotFound
    /\ (instructions = <<Split(9, 1), Match>> /\ Done) =>
           result = ErrInstructionNotFound

C9_Witness ==
    /\ instructions = <<Split(9, 1), Match>>
    /\ result = ErrInstructionNotFound

\* C10: over a sequence of calls on one Machine the instructions never
\* change, every call starts at pc 0 and sp 0, and the same text always
\* gets the same verdict.
C10_SameVerdict ==
    /\ [](\A p, q \in verdicts : p[1] = q[1] => p[2] = q[2])
    /\ [][ /\ instructions' = instructions
           /\ (result # "running" /\ result' = "running") =>
                  stack' = <<Frame(0, 0)>>
         ]_vars

C10_Witness ==
    /\ calls = 3
    /\ Done
    /\ Cardinality(verdicts) = 1
    /\ verdicts = {<<text, OkTrue>>}

\* C11: is_match calls that run concurrently on one Machine, interleaved at
\* single steps, each return the result the call returns when it runs
\* alone; a step changes the state of one call at most and never the
\* instructions.
C11_ConcurrentCalls ==
    /\ [](\A i \in Callers :
            threads[i].result \notin {"idle", "running"}
            => threads[i].result
               = run_alone(instructions, threads[i].text, Cursor(<<EntryFrame>>, "none")))
    /\ [][/\ instructions' = instructions
          /\ Cardinality({i \in Callers : \/ threads'[i] # threads[i]
                                          \/ cursors'[i] # cursors[i]}) <= 1]_vars

\* One call has returned true while another, on another text, is inside a
\* recursive call of a Split.
C11_Witness ==
    /\ threads[1].result = OkTrue
    /\ threads[2].result = "running"
    /\ threads[2].text # threads[1].text
    /\ Len(cursors[2].stack) >= 2

Ok(a) == [err |-> NoError, ast |-> a]
Err(e) == [err |-> e, ast |-> NoAst]
\* parse has returned r.
Returned(r) == parsed = <<r>>

\* C12: the character c read after an unescaped backslash is appended to the
\* concat buffer as one literal when it is one of * + \ ? ( ) |, without
\* any effect on the stack or on the alternation buffer, and the character
\* after it is read unescaped; any other c makes parse return
\* InvalidEscape(c).  "\+" parses to Char('+'), "a\bc" is InvalidEscape('b').
C12_Escape ==
    /\ [][ctx.escaping /\ pos' = pos + 1
          => IF NextChar \in {"*", "+", "\\", "?", "(", ")", "|"}
             THEN /\ ctx'.concat = Append(ctx.concat, AstChar(NextChar))
                  /\ ctx'.concat_or = ctx.concat_or
                  /\ ctx'.stack = ctx.stack
                  /\ ~ctx'.escaping
                  /\ ctx'.err = NoError
             ELSE ctx'.err = InvalidEscape(NextChar)]_vars
    /\ [](parsed # <<>> /\ ctx.err.kind = "InvalidEscape" => Returned(Err(ctx.err)))
    /\ [](parsed # <<>> /\ pattern = <<"\\", "+">> => Returned(Ok(AstChar("+"))))
    /\ [](parsed # <<>> /\ pattern = <<"a", "\\", "b", "c">>
          => Returned(Err(InvalidEscape("b"))))

\* "a\|b" has been parsed: the escaped '|' is a literal between a and b.
C12_Witness ==
    /\ pattern = <<"a", "\\", "|", "b">>
    /\ Returned(Ok(AstConcat(<<AstChar("a"), AstChar("|"), AstChar("b")>>)))

\* C13: for a pattern whose last character is an unescaped backslash, parse
\* returns InvalidEscape or MissingOperand, never an AST built as if the
\* backslash were absent.
C13_DanglingEscape ==
    parsed # <<>> /\ ctx.err = NoError /\ ctx.escaping
    => parsed[1].err.kind \in {"InvalidEscape", "MissingOperand"}

\* p without the two characters at k and k + 1.
Without2(p, k) == SubSeq(p, 1, k - 1) \o SubSeq(p, k + 2, Len(p))

HasNoBackslash(p) == \A k \in 1..Len(p) : p[k] # "\\"

\* C14: a ')' read while the concat buffer is empty emits nothing and
\* restores the concat buffer and the alternation buffer saved at the
\* matching '(' unchanged; so x "()" y parses to the AST of x y whenever
\* x y parses ("ab()c" parses like "abc").
C14_EmptyGroupNoOp ==
    /\ [][(/\ Reading /\ ~ctx.escaping /\ NextChar = ")"
           /\ ctx.concat = <<>> /\ ctx.stack # <<>>
           /\ pos' = pos + 1)
          => /\ ctx'.concat = Last(ctx.stack).concat
             /\ ctx'.concat_or = Last(ctx.stack).concat_or
             /\ ctx'.stack = Front(ctx.stack)
             /\ ctx'.err = NoError]_vars
    /\ [](parsed # <<>> /\ HasNoBackslash(pattern)
          => \A k \in 1..(Len(pattern) - 1) :
               (/\ pattern[k] = "(" /\ pattern[k + 1] = ")"
                /\ parse(Without2(pattern, k)).err = NoError)
               => parsed[1] = parse(Without2(pattern, k)))

\* The number of unescaped '(' minus the number of unescaped ')' among
\* p[i..n], read from p[i] on with the escape flag esc; d is the count so far.
RECURSIVE OpenMinusClose(_, _, _, _, _)
OpenMinusClose(p, i, n, esc, d) ==
    IF i > n THEN d
    ELSE IF esc THEN OpenMinusClose(p, i + 1, n, FALSE, d)
    ELSE CASE p[i] = "\\" -> OpenMinusClose(p, i + 1, n, TRUE, d)
           [] p[i] = "(" -> OpenMinusClose(p, i + 1, n, FALSE, d + 1)
           [] p[i] = ")" -> OpenMinusClose(p, i + 1, n, FALSE, d - 1)
           [] OTHER -> OpenMinusClose(p, i + 1, n, FALSE, d)

\* C15: while no error has occurred the depth of the stack of saved contexts
\* is the number of unescaped '(' read minus the number of unescaped ')'
\* read; an unescaped ')' read at depth 0 makes parse return
\* UnexpectedParenthesis; the end of the pattern reached at a depth above 0
\* makes parse return UnclosedParenthesis, whatever the buffers hold.
C15_ParenDepth ==
    /\ [](ctx.err = NoError
          => Len(ctx.stack) = OpenMinusClose(pattern, 1, pos, FALSE, 0))
    /\ [][(/\ Reading /\ ~ctx.escaping /\ NextChar = ")" /\ ctx.stack = <<>>
           /\ pos' = pos + 1)
          => ctx'.err = ParseError("UnexpectedParenthesis")]_vars
    /\ [](parsed # <<>> /\ ctx.err = ParseError("UnexpectedParenthesis")
          => Returned(Err(ParseError("UnexpectedParenthesis"))))
    /\ [](parsed # <<>> /\ ctx.err = NoError /\ ctx.stack # <<>>
          => Returned(Err(ParseError("UnclosedParenthesis"))))
    /\ [](parsed # <<>> /\ pattern \in {<<"(", "a", "b">>, <<"(">>}
          => Returned(Err(ParseError("UnclosedParenthesis"))))
    /\ [](parsed # <<>> /\ pattern \in {<<"a", "b", ")">>, <<")">>}
          => Returned(Err(ParseError("UnexpectedParenthesis"))))

\* "(a|" has been read to its end: a group is open, the concat buffer is
\* empty and the alternation buffer is not; parse returns
\* UnclosedParenthesis.
C15_Witness ==
    /\ Returned(Err(ParseError("UnclosedParenthesis")))
    /\ Len(ctx.stack) = 1
    /\ ctx.concat = <<>>
    /\ ctx.concat_or # <<>>

\* The steps at which an operator finds the concat buffer empty.
BarWithoutOperand ==
    Reading /\ ~ctx.escaping /\ NextChar = "|" /\ ctx.concat = <<>> /\ pos' = pos + 1
QuantifierWithoutOperand ==
    /\ Reading /\ ~ctx.escaping /\ NextChar \in {"?", "*", "+"}
    /\ ctx.concat = <<>> /\ pos' = pos + 1

\* What C16 says of the operators read and of the patterns it names.
MissingOperandWhileReading ==
    /\ [][BarWithoutOperand \/ QuantifierWithoutOperand
          => ctx'.err = ParseError("MissingOperand")]_vars
    /\ [](parsed # <<>> /\ ctx.err = ParseError("MissingOperand")
          => Returned(Err(ParseError("MissingOperand"))))
    /\ [](parsed # <<>> /\ pattern \in {<<"|", "b">>, <<"a", "|">>, <<"|">>, <<"?">>,
                                        <<"?", "a", "b", "c">>}
          => Returned(Err(ParseError("MissingOperand"))))

\* C16: parse returns MissingOperand whenever an operator has no operand:
\* an unescaped '|' or a '?', '*', '+' read while the concat buffer is
\* empty, and the end of the pattern reached with an empty concat buffer
\* and a non-empty alternation buffer.
C16_MissingOperand ==
    /\ MissingOperandWhileReading
    /\ [](parsed # <<>> /\ ctx.err = NoError
          /\ ctx.concat = <<>> /\ ctx.concat_or # <<>>
          => Returned(Err(ParseError("MissingOperand"))))

\* C16, amended: as C16, the end of the pattern being reached with no group
\* open; inside an open group parse returns UnclosedParenthesis.
C16_MissingOperandNoOpenGroup ==
    /\ MissingOperandWhileReading
    /\ [](parsed # <<>> /\ ctx.err = NoError /\ ctx.stack = <<>>
          /\ ctx.concat = <<>> /\ ctx.concat_or # <<>>
          => Returned(Err(ParseError("MissingOperand"))))

\* "a|b|" has been read without error and parse has returned
\* MissingOperand.
C16_Witness ==
    /\ Returned(Err(ParseError("MissingOperand")))
    /\ ctx.err = NoError
    /\ Len(ctx.concat_or) = 2

\* p is made of parentheses only, and they are balanced.
OnlyEmptyGroups(p) ==
    /\ \A k \in 1..Len(p) : p[k] \in {"(", ")"}
    /\ \A k \in 0..Len(p) : OpenMinusClose(p, 1, k, FALSE, 0) >= 0
    /\ OpenMinusClose(p, 1, Len(p), FALSE, 0) = 0

\* C17: parse returns Empty for the empty pattern and for every balanced
\* pattern made only of empty groups, nested or adjacent.
C17_EmptyPattern ==
    parsed # <<>> /\ OnlyEmptyGroups(pattern) => Returned(Err(ParseError("Empty")))

\* "(()())" has been parsed.
C17_Witness ==
    /\ pattern = <<"(", "(", ")", "(", ")", ")">>
    /\ Returned(Err(ParseError("Empty")))

\* Or(l[1], Or(l[2], ... Or(l[n-1], l[n]))), built from the left.
RECURSIVE RightChain(_)
RightChain(l) == IF Len(l) = 1 THEN l[1] ELSE AstOr(l[1], RightChain(Tail(l)))

\* The alternatives of the current grouping level, in source order: those
\* closed by a '|' and the one being read.
Alternatives(c) ==
    c.concat_or
    \o (IF c.concat = <<>> THEN <<>>
        ELSE IF Len(c.concat) = 1 THEN <<c.concat[1]>> ELSE <<AstConcat(c.concat)>>)

\* The pieces of p between its '|' characters.
RECURSIVE SplitBars(_)
SplitBars(p) ==
    IF \A k \in 1..Len(p) : p[k] # "|" THEN <<p>>
    ELSE LET k == CHOOSE i \in 1..Len(p) : p[i] = "|" /\ \A j \in 1..(i - 1) : p[j] # "|"
         IN  <<SubSeq(p, 1, k - 1)>> \o SplitBars(SubSeq(p, k + 1, Len(p)))

\* No Or node of a has an Or node as its left child.
RECURSIVE NoLeftOr(_)
NoLeftOr(a) ==
    /\ a.type = "Or" => a.kids[1].type # "Or"
    /\ \A k \in 1..Len(a.kids) : NoLeftOr(a.kids[k])

Ungrouped(p) == \A k \in 1..Len(p) : p[k] \notin {"(", ")", "\\"}

\* C18: the alternatives a1, ..., an of one grouping level, n >= 2, are
\* folded into Or(a1, Or(a2, ... Or(a(n-1), an))) in source order, at the
\* end of the pattern and at the ')' of a group; in a pattern without group
\* no Or node has an Or node as left child; "a|b|c" parses to
\* Or(a, Or(b, c)).
C18_RightLeaningOr ==
    /\ [](parsed # <<>> /\ parsed[1].err = NoError
          => parsed[1].ast = RightChain(Alternatives(ctx)))
    /\ [][(/\ Reading /\ ~ctx.escaping /\ NextChar = ")"
           /\ ctx.stack # <<>> /\ ctx.concat # <<>>
           /\ pos' = pos + 1)
          => ctx'.concat = Append(Last(ctx.stack).concat, RightChain(Alternatives(ctx)))]_vars
    /\ [](parsed # <<>> /\ parsed[1].err = NoError /\ Ungrouped(pattern)
          => /\ NoLeftOr(parsed[1].ast)
             /\ LET alts == SplitBars(pattern)
                IN  /\ \A k \in 1..Len(alts) : parse(alts[k]).err = NoError
                    /\ parsed[1].ast
                       = RightChain([k \in 1..Len(alts) |-> parse(alts[k]).ast]))
    /\ [](parsed # <<>> /\ pattern = <<"a", "|", "b", "|", "c">>
          => Returned(Ok(AstOr(AstChar("a"), AstOr(AstChar("b"), AstChar("c"))))))

\* "a(b|cd|e)" has been parsed: the three alternatives of the group form a
\* chain that leans to the right.
C18_Witness ==
    /\ pattern = <<"a", "(", "b", "|", "c", "d", "|", "e", ")">>
    /\ Returned(Ok(AstConcat(<<AstChar("a"),
                               AstOr(AstChar("b"),
                                     AstOr(AstConcat(<<AstChar("c"), AstChar("d")>>),
                                           AstChar("e")))>>)))

\* C19: in every AST that parse returns, and in every node the buffers
\* hold meanwhile, each Concat node has two children or more: one node
\* alone stands for itself, and no Concat without child is built.
C19_ConcatOfTwoOrMore ==
    /\ parsed # <<>> /\ parsed[1].err = NoError => NoShortConcat(parsed[1].ast)
    /\ \A k \in 1..Len(ctx.concat) : NoShortConcat(ctx.concat[k])
    /\ \A k \in 1..Len(ctx.concat_or) : NoShortConcat(ctx.concat_or[k])

\* "(a)b" has been parsed: the group of one node is that node.
C19_Witness ==
    /\ pattern = <<"(", "a", ")", "b">>
    /\ Returned(Ok(AstConcat(<<AstChar("a"), AstChar("b")>>)))

\* C20: during code generation for any AST the number of instructions
\* emitted equals pc before and after each emission (the push of one
\* instruction with its pc increment): no assert_eq!(instructions.len(),
\* pc) fails and no unreachable!() is reached, the generator does not panic.
C20_LenIsPc ==
    /\ Len(gen.instructions) = gen.pc
    /\ gen.err \notin {"AssertFailed", "Unreachable"}

\* The generation for Or(a, Plus(b)) is over: every method with an
\* assert_eq! but star, question and dot has run.
C20_Witness ==
    /\ ast = AstOr(AstChar("a"), AstPlus(AstChar("b")))
    /\ work = <<>>
    /\ gen.instructions = <<Split(1, 3), Char("a"), Jmp(5), Char("b"), Split(3, 5), Match>>

\* |n|: the number of instructions the node n is lowered to.
RECURSIVE SizeOf(_)
RECURSIVE SizeOfSeq(_)
SizeOf(n) ==
    CASE n.type \in {"Char", "Dot"} -> 1
      [] n.type = "Concat" -> SizeOfSeq(n.kids)
      [] n.type = "Or" -> 2 + SizeOf(n.kids[1]) + SizeOf(n.kids[2])
      [] n.type = "Question" -> 1 + SizeOf(n.kids[1])
      [] n.type = "Star" -> 2 + SizeOf(n.kids[1])
      [] n.type = "Plus" -> SizeOf(n.kids[1]) + 1

SizeOfSeq(v) == IF v = <<>> THEN 0 ELSE SizeOf(Head(v)) + SizeOfSeq(Tail(v))

\* R(n, p): the lowering of the node n that starts at index p.
RECURSIVE R(_, _)
RECURSIVE RSeq(_, _)
R(n, p) ==
    CASE n.type = "Char" -> <<Char(n.c)>>
      [] n.type = "Dot" -> <<AnyByte>>
      [] n.type = "Concat" -> RSeq(n.kids, p)
      [] n.type = "Or" ->
           LET l == n.kids[1]
               r == n.kids[2]
           IN  <<Split(p + 1, p + 2 + SizeOf(l))>> \o R(l, p + 1)
               \o <<Jmp(p + 2 + SizeOf(l) + SizeOf(r))>> \o R(r, p + 2 + SizeOf(l))
      [] n.type = "Question" ->
           <<Split(p + 1, p + 1 + SizeOf(n.kids[1]))>> \o R(n.kids[1], p + 1)
      [] n.type = "Star" ->
           <<Split(p + 1, p + 2 + SizeOf(n.kids[1]))>> \o R(n.kids[1], p + 1) \o <<Jmp(p)>>
      [] n.type = "Plus" ->
           R(n.kids[1], p) \o <<Split(p, p + SizeOf(n.kids[1]) + 1)>>

RSeq(v, p) ==
    IF v = <<>> THEN <<>> ELSE R(Head(v), p) \o RSeq(Tail(v), p + SizeOf(Head(v)))

\* The generation is over and has returned Ok.
Generated == work = <<>> /\ gen.err = "none"

\* The step that sets a target left open: the slot at holds an instruction
\* op, and only its target changes, to the value of pc.
SetsTarget(k, op) ==
    /\ Doing(k) /\ work' # work
    /\ LET at == Head(work).at
       IN  /\ at < Len(gen.instructions)
           /\ gen'.instructions[at + 1].op = op
           /\ gen'.err = "none"
           /\ IF op = "Split"
              THEN /\ gen'.instructions[at + 1].y = gen'.pc
                   /\ \A i \in 1..Len(gen.instructions) :
                        i # at + 1 => gen'.instructions[i] = gen.instructions[i]
                   /\ gen'.instructions[at + 1].x = gen.instructions[at + 1].x
              ELSE gen'.instructions = [gen.instructions EXCEPT ![at + 1].x = gen'.pc]

\* C21: for every AST, generate_code(ast) is R(ast, 0) followed by Match,
\* R(n, p) being the lowering of n at index p: Char(c) and AnyByte for the
\* leaves, the children in order for Concat, Split(p+1, p+2+|l|) l
\* Jmp(p+2+|l|+|r|) r for Or, Split(p+1, p+1+|e|) e for Question,
\* Split(p+1, p+2+|e|) e Jmp(p) for Star, e Split(p, p+|e|+1) for Plus; each
\* target left open is set at a slot that holds the Split or the Jmp
\* expected there.
C21_Lowering ==
    /\ [](Generated => /\ gen.instructions = R(ast, 0) \o <<Match>>
                       /\ generate_code(ast) = [err |-> "none",
                                                instructions |-> R(ast, 0) \o <<Match>>])
    /\ [][/\ Doing("or_jmp") /\ work' # work => SetsTarget("or_jmp", "Split")
          /\ Doing("or_end") /\ work' # work => SetsTarget("or_end", "Jmp")
          /\ Doing("question_end") /\ work' # work => SetsTarget("question_end", "Split")
          /\ Doing("star_end") /\ work' # work => SetsTarget("star_end", "Split")]_vars

\* The generation for Or(a, Star(b)) is over.
C21_Witness ==
    /\ ast = AstOr(AstChar("a"), AstStar(AstChar("b")))
    /\ Generated
    /\ gen.instructions = <<Split(1, 3), Char("a"), Jmp(6),
                            Split(4, 6), Char("b"), Jmp(3), Match>>

\* C22: the sequence generate_code returns ends with Match and holds Match
\* at no other index (none at all while the root node is being lowered),
\* and its length is the value of pc reached after lowering the root node,
\* plus one.
C22_MatchAtEndOnly ==
    /\ [](Generated
          => /\ gen.instructions # <<>>
             /\ \A i \in 1..Len(gen.instructions) :
                  gen.instructions[i].op = "Match" <=> i = Len(gen.instructions))
    /\ [](work # <<>>
          => \A i \in 1..Len(gen.instructions) : gen.instructions[i].op # "Match")
    /\ [][Doing("match") /\ work' # work
          => /\ Len(gen'.instructions) = gen.pc + 1
             /\ gen'.instructions = Append(gen.instructions, Match)]_vars

\* The generation for Star(Dot) is over.
C22_Witness ==
    /\ ast = AstStar(AstDot)
    /\ Generated
    /\ gen.instructions = <<Split(1, 3), AnyByte, Jmp(0), Match>>

\* C23: when the first branch of a Split(a, b) reached at input position sp
\* returns false, the second branch starts at (b, sp), whatever the first
\* branch consumed; no step changes the pc or the sp of an activation other
\* than the innermost one, so nothing a branch does to its pc and sp shows
\* in its sibling or in its caller.
C23_SecondBranchFromSplit ==
    [][/\ (/\ result = "running" /\ ret = OkFalse /\ Len(stack) >= 2
           /\ stack[Len(stack) - 1].st = "l1"
           /\ stack' # stack)
          => LET caller == stack[Len(stack) - 1]
                 split == instructions[caller.pc + 1]
             IN  /\ Len(stack') = Len(stack)
                 /\ Last(stack') = Frame(split.y, caller.sp)
                 /\ ret' = "none"
       /\ \A k \in 1..Len(stack') :
            (k < Len(stack) \/ (k = Len(stack) /\ Len(stack') > Len(stack)))
            => /\ stack'[k].pc = stack[k].pc
               /\ stack'[k].sp = stack[k].sp]_vars

\* On the program of (ab)? and the text "a" the first branch of the Split
\* at 0 has consumed a and failed at b; the second branch starts at (3, 0).
C23_Witness ==
    /\ ast = AstQuestion(AstConcat(<<AstChar("a"), AstChar("b")>>))
    /\ text = <<"a">>
    /\ stack = <<[pc |-> 0, sp |-> 0, st |-> "l2"], Frame(3, 0)>>

\* A step of the loop of the innermost activation on the instruction op.
Executes(op) ==
    InLoop /\ Found /\ Instr.op = op /\ (stack' # stack \/ ret' # ret)

\* The path returns false: no error, nothing consumed.
PathFails == ret' = OkFalse /\ stack' = stack

\* pc and sp of the innermost activation advance by one each.
AdvancesBoth ==
    /\ ret' = "none"
    /\ stack' = SetTop([Top EXCEPT !.pc = Top.pc + 1, !.sp = Top.sp + 1])

\* C24: AnyByte at sp >= len(text) makes the path return false, without
\* error and without consuming; at sp < len(text) it advances pc and sp by
\* one each whatever the element; Char(c) does the same and also fails the
\* path when the element at sp is not c; Jmp sets pc and leaves sp as it is.
C24_StepEffects ==
    [][/\ Executes("AnyByte")
          => IF Top.sp >= Len(text) THEN PathFails ELSE AdvancesBoth
       /\ Executes("Char")
          => IF Top.sp >= Len(text) THEN PathFails
             ELSE IF text[Top.sp + 1] # Instr.c THEN PathFails
             ELSE AdvancesBoth
       /\ Executes("Jmp")
          => /\ ret' = "none"
             /\ stack' = SetTop([Top EXCEPT !.pc = Instr.x])]_vars

\* AnyByte has consumed the element b of the text "b".
C24_Witness ==
    /\ instructions = <<AnyByte, Match>>
    /\ text = <<"b">>
    /\ stack = <<Frame(1, 1)>>

\* The node a quantifier character builds over the node e.
Quantified(c, e) ==
    CASE c = "?" -> AstQuestion(e)
      [] c = "*" -> AstStar(e)
      [] c = "+" -> AstPlus(e)

\* C25: a '?', '*' or '+' read with a non-empty concat buffer replaces the
\* last node of the buffer by the Question, Star or Plus node over it; the
\* earlier nodes, the alternation buffer and the stack are unchanged.
\* "a?b" parses to Concat[Question(a), b], "a(bc)?de" to
\* Concat[a, Question(Concat[b, c]), d, e].
C25_QuantifierWrapsLast ==
    /\ [][(/\ Reading /\ ~ctx.escaping /\ NextChar \in {"?", "*", "+"}
           /\ ctx.concat # <<>>
           /\ pos' = pos + 1)
          => /\ Len(ctx'.concat) = Len(ctx.concat)
             /\ \A k \in 1..(Len(ctx.concat) - 1) : ctx'.concat[k] = ctx.concat[k]
             /\ Last(ctx'.concat) = Quantified(NextChar, Last(ctx.concat))
             /\ ctx'.concat_or = ctx.concat_or
             /\ ctx'.stack = ctx.stack
             /\ ctx'.err = NoError]_vars
    /\ [](parsed # <<>> /\ pattern = <<"a", "?", "b">>
          => Returned(Ok(AstConcat(<<AstQuestion(AstChar("a")), AstChar("b")>>))))
    /\ [](parsed # <<>> /\ pattern = <<"a", "(", "b", "c", ")", "?", "d", "e">>
          => Returned(Ok(AstConcat(<<AstChar("a"),
                                     AstQuestion(AstConcat(<<AstChar("b"), AstChar("c")>>)),
                                     AstChar("d"), AstChar("e")>>))))

\* The '?' of "a(bc)?de" has been read: the node of the group, last of the
\* buffer, is wrapped, the a before it is as it was.
C25_Witness ==
    /\ pattern = <<"a", "(", "b", "c", ")", "?", "d", "e">>
    /\ pos = 6
    /\ ctx.concat = <<AstChar("a"), AstQuestion(AstConcat(<<AstChar("b"), AstChar("c")>>))>>

\* The character p[k] follows an unescaped backslash.
RECURSIVE EscapedAt(_, _)
EscapedAt(p, k) == k > 1 /\ p[k - 1] = "\\" /\ ~EscapedAt(p, k - 1)

\* An unescaped '|' of p is followed at once by the unescaped ')' that
\* closes its group.
BarBeforeClose(p) ==
    \E k \in 1..(Len(p) - 1) :
        /\ p[k] = "|" /\ ~EscapedAt(p, k)
        /\ p[k + 1] = ")"
        /\ OpenMinusClose(p, 1, k, FALSE, 0) > 0

\* C26: for every pattern in which an unescaped '|' is followed at once by
\* the unescaped ')' that closes its group ("(a|)", "(a|)b"), parse returns
\* an error, never an AST.
C26_BarBeforeCloseIsError ==
    parsed # <<>> /\ BarBeforeClose(pattern) => parsed[1].err # NoError

\* C27: inc on a counter that holds the largest value of the word returns
\* the error supplied (PcOverflow for Pc::inc, SpOverflow for Sp::inc) and
\* leaves the counter as it is; on any other value it adds exactly one and
\* returns the new value; no inc makes the counter smaller, and the counter
\* stays within the word.
C27_CheckedInc ==
    /\ [](counter \in 0..UsizeMax)
    /\ [][counter' >= counter]_vars
    /\ [][inc_ret' # inc_ret \/ counter' # counter
          => IF counter = UsizeMax
             THEN /\ counter' = counter
                  /\ \/ inc_ret' = IncRet("Pc", "PcOverflow", 0)
                     \/ inc_ret' = IncRet("Sp", "SpOverflow", 0)
             ELSE /\ counter' = counter + 1
                  /\ \/ inc_ret' = IncRet("Pc", "none", counter + 1)
                     \/ inc_ret' = IncRet("Sp", "none", counter + 1)]_vars
    /\ [](inc_ret.err # "none" => counter = UsizeMax /\ inc_ret.err = inc_ret.of \o "Overflow")

\* Sp::inc has been called on the largest value and has returned
\* SpOverflow.
C27_Witness ==
    /\ counter = UsizeMax
    /\ inc_ret = IncRet("Sp", "SpOverflow", 0)

=============================================================================
